---- MODULE Spec2Model ----
(***************************************************************************)
(* Two-stage DCF valuation engine (src/dcf_model.py, class DCFModel) and   *)
(* the way its entry points drive it (src/main.py, src/dcf_app.py).        *)
(*                                                                         *)
(* Numbers.  The program computes in binary floating point.  The model     *)
(* computes in exact rational arithmetic: a number is a pair <<n, d>> with *)
(* d > 0 and gcd(n, d) = 1, so equal numbers are equal pairs.  Rounding,   *)
(* NaN and infinities are outside the model.  A Python float division by   *)
(* zero raises ZeroDivisionError; the model records that in the "raised"   *)
(* field of the call's outcome.                                            *)
(***************************************************************************)
EXTENDS Integers, Sequences, FiniteSets

(***************************************************************************)
(* Bounds of the exploration.                                              *)
(***************************************************************************)
MaxYears == 3
MaxDraws == 2

(***************************************************************************)
(* Exact rationals.                                                        *)
(***************************************************************************)
Abs(x) == IF x < 0 THEN -x ELSE x

RECURSIVE GCD(_, _)
GCD(a, b) == IF b = 0 THEN a ELSE GCD(b, a % b)

Rat(n, d) ==
    LET s == IF d < 0 THEN -1 ELSE 1
        g == GCD(Abs(n), Abs(d))
    IN  <<(s * n) \div g, (s * d) \div g>>

Zero == <<0, 1>>
One == <<1, 1>>

RAdd(a, b) ==
    LET g == GCD(a[2], b[2])
    IN  Rat(a[1] * (b[2] \div g) + b[1] * (a[2] \div g), (a[2] \div g) * b[2])

RNeg(a) == <<-a[1], a[2]>>
RSub(a, b) == RAdd(a, RNeg(b))
RMul(a, b) ==
    LET x == Rat(a[1], b[2])
        y == Rat(b[1], a[2])
    IN  <<x[1] * y[1], x[2] * y[2]>>
\* a / b for b # 0
RDiv(a, b) == RMul(a, Rat(b[2], b[1]))
RSign(a) == IF a[1] > 0 THEN 1 ELSE IF a[1] < 0 THEN -1 ELSE 0
RLt(a, b) == RSign(RSub(a, b)) < 0
RLe(a, b) == RSign(RSub(a, b)) <= 0
RGt(a, b) == RLt(b, a)
RMax(a, b) == IF RLt(a, b) THEN b ELSE a

RECURSIVE RPow(_, _)
RPow(a, k) == IF k = 0 THEN One ELSE RMul(a, RPow(a, k - 1))

(***************************************************************************)
(* Inputs explored.                                                        *)
(***************************************************************************)
InitialFcfs == {Zero, Rat(2, 1)}
NetDebts == {Rat(3, 1)}
SharesOutstanding == {Rat(-2, 1), Zero, Rat(2, 1)}
ExplicitYears == 0..MaxYears
Waccs == {Rat(-1, 1), Rat(1, 4), Rat(1, 2), Rat(1, 1)}
LongTermGrowths == {Rat(-1, 2), Rat(1, 4)}
StageGrowths == {<<Zero, Zero>>, <<Rat(1, 1), Rat(1, 2)>>}
Stdevs == {Rat(-1, 10), Zero, Rat(1, 10)}

VARIABLES
    initial_fcf, net_debt, shares_outstanding, explicit_years,
    simulations, simulated_per_share_values,
    projected_fcfs, pv_fcfs, terminal_value, fair_value_per_share_deterministic,
    results_det, results_det_prev, results_mc, pc

profile == <<initial_fcf, net_debt, shares_outstanding, explicit_years>>
det_fields == <<projected_fcfs, pv_fcfs, terminal_value, fair_value_per_share_deterministic>>
mc_fields == <<simulations, simulated_per_share_values>>
vars == <<profile, det_fields, mc_fields, results_det, results_det_prev, results_mc, pc>>

(***************************************************************************)
(* The valuation kernel.                                                   *)
(***************************************************************************)
\* [x] * n of Python: the empty list for n <= 0
Repeat(x, n) == [i \in 1..(IF n > 0 THEN n ELSE 0) |-> x]

\* growth_rates = [initial_growth] * 2 + [step_down_growth] * (explicit_years - 2)
\* the second stage repeated explicit_years - 1 times: one entry too many
growth_rates_long(initial_growth, step_down_growth) ==
    Repeat(initial_growth, 2) \o Repeat(step_down_growth, explicit_years - 1)

growth_rates(initial_growth, step_down_growth) ==
    Repeat(initial_growth, 2) \o Repeat(step_down_growth, explicit_years - 2)

\* the loop of _project_and_discount_fcfs from year t on
RECURSIVE project_loop(_, _, _, _, _)
project_loop(t, fcf_t, pv_of_explicit_flows, wacc, rates) ==
    IF t > explicit_years
    THEN [raised |-> "none", pv |-> pv_of_explicit_flows, fcf |-> fcf_t]
    ELSE LET fcf_next == RMul(fcf_t, RAdd(One, rates[t]))
             discount_factor == RPow(RAdd(One, wacc), t)
         IN  IF discount_factor = Zero
             THEN [raised |-> "ZeroDivisionError", pv |-> pv_of_explicit_flows,
                   fcf |-> fcf_next]
             ELSE project_loop(t + 1, fcf_next,
                               RAdd(pv_of_explicit_flows, RDiv(fcf_next, discount_factor)),
                               wacc, rates)

\* the accumulator started at the year-0 cash flow instead of 0.0
project_and_discount_fcfs_from_year_zero(wacc, rates) ==
    project_loop(1, initial_fcf, initial_fcf, wacc, rates)

project_and_discount_fcfs(wacc, rates) ==
    project_loop(1, initial_fcf, Zero, wacc, rates)

\* the guard without the equality: wacc = g reaches the division
calculate_terminal_value_strict(fcf_last_year, wacc, long_term_growth_rate) ==
    IF RLt(wacc, long_term_growth_rate)
    THEN [raised |-> "none", gordon |-> FALSE, value |-> Zero]
    ELSE IF wacc = long_term_growth_rate
    THEN [raised |-> "ZeroDivisionError", gordon |-> TRUE, value |-> Zero]
    ELSE [raised |-> "none", gordon |-> TRUE,
          value |-> RDiv(RDiv(RMul(fcf_last_year, RAdd(One, long_term_growth_rate)),
                              RSub(wacc, long_term_growth_rate)),
                         RPow(RAdd(One, wacc), explicit_years))]

\* the Gordon Growth denominator with its terms swapped: g - wacc
calculate_terminal_value_swapped(fcf_last_year, wacc, long_term_growth_rate) ==
    IF RLe(wacc, long_term_growth_rate)
    THEN [raised |-> "none", gordon |-> FALSE, value |-> Zero]
    ELSE IF RPow(RAdd(One, wacc), explicit_years) = Zero
    THEN [raised |-> "ZeroDivisionError", gordon |-> TRUE, value |-> Zero]
    ELSE [raised |-> "none", gordon |-> TRUE,
          value |-> RDiv(RDiv(RMul(fcf_last_year, RAdd(One, long_term_growth_rate)),
                              RSub(long_term_growth_rate, wacc)),
                         RPow(RAdd(One, wacc), explicit_years))]

calculate_terminal_value(fcf_last_year, wacc, long_term_growth_rate) ==
    IF RLe(wacc, long_term_growth_rate)
    THEN [raised |-> "none", gordon |-> FALSE, value |-> Zero]
    ELSE LET fcf_in_perpetuity == RMul(fcf_last_year, RAdd(One, long_term_growth_rate))
             terminal_value_at_year_T ==
                 RDiv(fcf_in_perpetuity, RSub(wacc, long_term_growth_rate))
             discount_factor_T == RPow(RAdd(One, wacc), explicit_years)
         IN  IF discount_factor_T = Zero
             THEN [raised |-> "ZeroDivisionError", gordon |-> TRUE, value |-> Zero]
             ELSE [raised |-> "none", gordon |-> TRUE,
                   value |-> RDiv(terminal_value_at_year_T, discount_factor_T)]

\* real_fcf_series of run_deterministic_valuation: years 0..explicit_years
RECURSIVE real_fcf_series(_, _, _)
real_fcf_series(t, fcf_t, rates) ==
    IF t > explicit_years THEN <<>>
    ELSE LET fcf_next == RMul(fcf_t, RAdd(One, rates[t]))
         IN  <<fcf_next>> \o real_fcf_series(t + 1, fcf_next, rates)

(***************************************************************************)
(* run_deterministic_valuation.  The outcome of one call: the values the   *)
(* call leaves in the object's fields and what it returns or raises.       *)
(* "stage" is the statement that raised: the call stops there, and the     *)
(* fields assigned before it keep their new values.                        *)
(***************************************************************************)
NoDet ==
    [op |-> "none", raised |-> "none", stage |-> "none",
     WACC |-> Zero, LongTermGrowth |-> Zero, initial_growth |-> Zero,
     step_down_growth |-> Zero, growth_rates |-> <<>>,
     EnterpriseValue |-> Zero, EquityValue |-> Zero, FairValuePerShare |-> Zero,
     PVExplicitFCFs |-> Zero, PVTerminalValue |-> Zero, gordon |-> FALSE,
     ProjectedFCFs |-> <<>>]

det_called(wacc, long_term_growth_rate, initial_growth, step_down_growth, rates) ==
    [NoDet EXCEPT !.op = "det", !.WACC = wacc,
                  !.LongTermGrowth = long_term_growth_rate,
                  !.initial_growth = initial_growth,
                  !.step_down_growth = step_down_growth,
                  !.growth_rates = rates]

\* the object's fields a call may assign, as the call finds them
det_fields_before ==
    [projected_fcfs |-> projected_fcfs, pv_fcfs |-> pv_fcfs,
     terminal_value |-> terminal_value,
     fair_value_per_share_deterministic |-> fair_value_per_share_deterministic]

\* lines 92-93
det_fields_after_project(p) ==
    [det_fields_before EXCEPT !.pv_fcfs = p.pv, !.projected_fcfs = <<initial_fcf>>]

\* line 97
det_fields_after_terminal(p, tv) ==
    [det_fields_after_project(p) EXCEPT !.terminal_value = tv.value]

\* a valuation that refuses every non-positive share count
det_per_share_positive_only(called, p, tv, enterprise_value, equity_value) ==
    IF RLe(shares_outstanding, Zero)
    THEN [fields |-> det_fields_after_terminal(p, tv),
          ret |-> [called EXCEPT !.raised = "ZeroDivisionError",
                                 !.stage = "per_share",
                                 !.PVExplicitFCFs = p.pv,
                                 !.PVTerminalValue = tv.value,
                                 !.gordon = tv.gordon,
                                 !.EnterpriseValue = enterprise_value,
                                 !.EquityValue = equity_value]]
    ELSE [fields |-> [det_fields_after_terminal(p, tv) EXCEPT
                          !.fair_value_per_share_deterministic =
                              RDiv(equity_value, shares_outstanding)],
          ret |-> [called EXCEPT
                       !.EnterpriseValue = enterprise_value,
                       !.EquityValue = equity_value,
                       !.FairValuePerShare = RDiv(equity_value, shares_outstanding),
                       !.PVExplicitFCFs = p.pv,
                       !.PVTerminalValue = tv.value,
                       !.gordon = tv.gordon,
                       !.ProjectedFCFs =
                           <<initial_fcf>>
                               \o real_fcf_series(1, initial_fcf, called.growth_rates)]]

\* lines 102-123: the division by shares_outstanding, the series and the return
det_per_share(called, p, tv, enterprise_value, equity_value) ==
    IF shares_outstanding = Zero
    THEN [fields |-> det_fields_after_terminal(p, tv),
          ret |-> [called EXCEPT !.raised = "ZeroDivisionError",
                                 !.stage = "per_share",
                                 !.PVExplicitFCFs = p.pv,
                                 !.PVTerminalValue = tv.value,
                                 !.gordon = tv.gordon,
                                 !.EnterpriseValue = enterprise_value,
                                 !.EquityValue = equity_value]]
    ELSE [fields |-> [det_fields_after_terminal(p, tv) EXCEPT
                          !.fair_value_per_share_deterministic =
                              RDiv(equity_value, shares_outstanding)],
          ret |-> [called EXCEPT
                       !.EnterpriseValue = enterprise_value,
                       !.EquityValue = equity_value,
                       !.FairValuePerShare = RDiv(equity_value, shares_outstanding),
                       !.PVExplicitFCFs = p.pv,
                       !.PVTerminalValue = tv.value,
                       !.gordon = tv.gordon,
                       !.ProjectedFCFs =
                           <<initial_fcf>>
                               \o real_fcf_series(1, initial_fcf, called.growth_rates)]]

\* lines 100-101
det_value(called, p, tv, enterprise_value) ==
    det_per_share(called, p, tv, enterprise_value, RSub(enterprise_value, net_debt))

\* lines 96-97, from the result tv of _calculate_terminal_value
det_terminal(called, p, tv) ==
    IF tv.raised # "none"
    THEN [fields |-> det_fields_after_project(p),
          ret |-> [called EXCEPT !.raised = tv.raised, !.stage = "terminal",
                                 !.PVExplicitFCFs = p.pv]]
    ELSE det_value(called, p, tv, RAdd(p.pv, tv.value))

\* lines 91-93, from the result p of _project_and_discount_fcfs
det_project(called, p) ==
    IF p.raised # "none"
    THEN [fields |-> det_fields_before,
          ret |-> [called EXCEPT !.raised = p.raised, !.stage = "project"]]
    ELSE det_terminal(called, p,
                      calculate_terminal_value(p.fcf, called.WACC, called.LongTermGrowth))

det_with_rates(wacc, long_term_growth_rate, initial_growth, step_down_growth, rates) ==
    det_project(det_called(wacc, long_term_growth_rate, initial_growth,
                           step_down_growth, rates),
                project_and_discount_fcfs(wacc, rates))

deterministic_outcome(wacc, long_term_growth_rate, initial_growth, step_down_growth) ==
    det_with_rates(wacc, long_term_growth_rate, initial_growth, step_down_growth,
                   growth_rates(initial_growth, step_down_growth))

det_assign(out) ==
    /\ projected_fcfs' = out.fields.projected_fcfs
    /\ pv_fcfs' = out.fields.pv_fcfs
    /\ terminal_value' = out.fields.terminal_value
    /\ fair_value_per_share_deterministic' =
           out.fields.fair_value_per_share_deterministic
    /\ results_det' = out.ret
    /\ results_det_prev' = results_det
    /\ UNCHANGED <<profile, mc_fields, results_mc>>

run_deterministic_valuation(wacc, long_term_growth_rate, initial_growth, step_down_growth) ==
    det_assign(deterministic_outcome(wacc, long_term_growth_rate,
                                     initial_growth, step_down_growth))

(***************************************************************************)
(* The numpy statistics of run_monte_carlo_sensitivity, over a non-empty   *)
(* sequence of numbers.                                                    *)
(***************************************************************************)
RECURSIVE RSum(_)
RSum(xs) == IF xs = <<>> THEN Zero ELSE RAdd(Head(xs), RSum(Tail(xs)))

RECURSIVE Insert(_, _)
Insert(x, sorted) ==
    IF sorted = <<>> THEN <<x>>
    ELSE IF RLe(x, Head(sorted)) THEN <<x>> \o sorted
    ELSE <<Head(sorted)>> \o Insert(x, Tail(sorted))

RECURSIVE Sorted(_)
Sorted(xs) == IF xs = <<>> THEN <<>> ELSE Insert(Head(xs), Sorted(Tail(xs)))

\* np.mean
np_mean(xs) == RDiv(RSum(xs), Rat(Len(xs), 1))

\* np.percentile(xs, q) for q = qn / qd percent, linear interpolation between
\* the order statistics around the virtual index (n - 1) * q / 100
lerp(lower, upper, frac) == RAdd(lower, RMul(frac, RSub(upper, lower)))

percentile_of_sorted(a, num, den) ==
    lerp(a[(num \div den) + 1],
         a[(IF (num \div den) + 1 < Len(a) THEN (num \div den) + 1 ELSE Len(a) - 1) + 1],
         Rat(num % den, den))

\* the order statistics taken from the values as they come, unsorted
np_percentile_unsorted(xs, qn, qd) ==
    percentile_of_sorted(xs, (Len(xs) - 1) * qn, 100 * qd)

np_percentile(xs, qn, qd) ==
    percentile_of_sorted(Sorted(xs), (Len(xs) - 1) * qn, 100 * qd)

\* np.median: the middle order statistic, or the mean of the two middle ones
median_of_sorted(a, n) ==
    IF n % 2 = 1 THEN a[(n \div 2) + 1]
    ELSE RDiv(RAdd(a[n \div 2], a[(n \div 2) + 1]), Rat(2, 1))

np_median(xs) == median_of_sorted(Sorted(xs), Len(xs))

\* np.std is the square root of the mean squared deviation from the mean, in
\* general no rational number.  The model keeps the one fact about it that is:
\* whether it is zero, that is whether every value equals the mean.
np_std_is_zero(xs) == \A i \in 1..Len(xs) : xs[i] = np_mean(xs)

(***************************************************************************)
(* scipy.stats.norm.rvs(loc, scale, size).  A negative scale is a domain   *)
(* error (ValueError); scale 0 yields loc, size times; a positive scale    *)
(* yields any real numbers, here the sequence z the caller draws.          *)
(***************************************************************************)
norm_rvs(loc, scale, size, z) ==
    IF RLt(scale, Zero) THEN [raised |-> "ValueError", samples |-> <<>>]
    ELSE IF scale = Zero THEN [raised |-> "none", samples |-> [i \in 1..size |-> loc]]
    ELSE [raised |-> "none", samples |-> z]

\* the floor of np.maximum(samples, 0.01)
RateFloor == Rat(1, 100)

\* no floor at all
clamp_none(samples) == samples

\* a floor of 0 in place of 0.01
clamp_zero_floor(samples) == [i \in 1..Len(samples) |-> RMax(samples[i], Zero)]

clamp(samples) == [i \in 1..Len(samples) |-> RMax(samples[i], RateFloor)]

\* the filter with >= in place of >
survives_or_equal(wacc_i, g_i) == RLe(g_i, wacc_i)

\* the filter of the simulation loop
survives(wacc_i, g_i) == RGt(wacc_i, g_i)

\* may a surviving draw's value be appended
shares_guard == RGt(shares_outstanding, Zero)

\* one iteration of the simulation loop: the values it appends to results_list
\* the equity value without the net debt subtracted
value_of_draw_no_debt(p, wacc_i, g_i) ==
    RAdd(p.pv, calculate_terminal_value(p.fcf, wacc_i, g_i).value)

\* steps 2 and 3 of an iteration, from the result p of step 1
value_of_draw(p, wacc_i, g_i) ==
    RSub(RAdd(p.pv, calculate_terminal_value(p.fcf, wacc_i, g_i).value), net_debt)

draw_result(wacc_i, g_i, rates) ==
    IF survives(wacc_i, g_i) /\ shares_guard
    THEN <<RDiv(value_of_draw(project_and_discount_fcfs(wacc_i, rates), wacc_i, g_i),
                shares_outstanding)>>
    ELSE <<>>

RECURSIVE results_from(_, _, _, _)
results_from(i, waccs, gs, rates) ==
    IF i > Len(waccs) THEN <<>>
    ELSE draw_result(waccs[i], gs[i], rates) \o results_from(i + 1, waccs, gs, rates)

\* numpy's statistics of an empty array are nan, no number
NaN == <<0, 0>>

\* the statistics without the guard "if results_list"
summary_unguarded(results_list) ==
    IF results_list # <<>>
    THEN [Count |-> Len(results_list),
          Mean |-> np_mean(results_list),
          Median |-> np_median(results_list),
          StDevIsZero |-> np_std_is_zero(results_list),
          CI |-> <<np_percentile(results_list, 25, 10),
                   np_percentile(results_list, 975, 10)>>]
    ELSE [Count |-> 0, Mean |-> NaN, Median |-> NaN, StDevIsZero |-> FALSE,
          CI |-> <<NaN, NaN>>]

summary(results_list) ==
    IF results_list # <<>>
    THEN [Count |-> Len(results_list),
          Mean |-> np_mean(results_list),
          Median |-> np_median(results_list),
          StDevIsZero |-> np_std_is_zero(results_list),
          CI |-> <<np_percentile(results_list, 25, 10),
                   np_percentile(results_list, 975, 10)>>]
    ELSE [Count |-> 0, Mean |-> Zero, Median |-> Zero, StDevIsZero |-> TRUE,
          CI |-> <<Zero, Zero>>]

(***************************************************************************)
(* DCFModel.__init__ for every profile explored.                           *)
(***************************************************************************)
NoMC ==
    [op |-> "none", raised |-> "none",
     wacc_mean |-> Zero, wacc_stdev |-> Zero, g_mean |-> Zero, g_stdev |-> Zero,
     initial_growth |-> Zero, step_down_growth |-> Zero, draws |-> 0,
     growth_rates |-> <<>>,
     simulated_waccs |-> <<>>, simulated_gs |-> <<>>,
     Count |-> 0, Mean |-> Zero, Median |-> Zero, StDevIsZero |-> TRUE,
     CI |-> <<Zero, Zero>>]

Init ==
    /\ initial_fcf \in InitialFcfs
    /\ net_debt \in NetDebts
    /\ shares_outstanding \in SharesOutstanding
    /\ explicit_years \in ExplicitYears
    /\ simulations = 10000
    /\ simulated_per_share_values = <<>>
    /\ projected_fcfs = <<>>
    /\ pv_fcfs = Zero
    /\ terminal_value = Zero
    /\ fair_value_per_share_deterministic = Zero
    /\ results_det = NoDet
    /\ results_det_prev = NoDet
    /\ results_mc = NoMC
    /\ pc = "constructed"

(***************************************************************************)
(* Repeated deterministic valuations on one model, the last two outcomes   *)
(* kept for comparison.                                                    *)
(***************************************************************************)
RunDeterministic ==
    \E wacc \in Waccs, g \in LongTermGrowths, stage \in StageGrowths :
        /\ run_deterministic_valuation(wacc, g, stage[1], stage[2])
        /\ pc' = "det_done"

SpecDet == Init /\ [][RunDeterministic]_vars

(***************************************************************************)
(* run_monte_carlo_sensitivity.  zw and zg are the samples the two normal  *)
(* distributions yield when their scale is positive.                       *)
(***************************************************************************)
mc_called(wacc_mean, wacc_stdev, g_mean, g_stdev, initial_growth, step_down_growth, draws) ==
    [NoMC EXCEPT !.op = "mc", !.wacc_mean = wacc_mean, !.wacc_stdev = wacc_stdev,
                 !.g_mean = g_mean, !.g_stdev = g_stdev,
                 !.initial_growth = initial_growth,
                 !.step_down_growth = step_down_growth, !.draws = draws]

mc_return(called, simulated_waccs, simulated_gs, stats) ==
    [called EXCEPT !.simulated_waccs = simulated_waccs,
                   !.simulated_gs = simulated_gs,
                   !.Count = stats.Count, !.Mean = stats.Mean,
                   !.Median = stats.Median, !.StDevIsZero = stats.StDevIsZero,
                   !.CI = stats.CI]

mc_aggregate(called, simulated_waccs, simulated_gs, results_list) ==
    [values |-> results_list,
     ret |-> mc_return(called, simulated_waccs, simulated_gs, summary(results_list))]

mc_loop(called, simulated_waccs, simulated_gs, rates) ==
    mc_aggregate([called EXCEPT !.growth_rates = rates], simulated_waccs, simulated_gs,
                 results_from(1, simulated_waccs, simulated_gs, rates))

mc_sampled(called, sw, sg, rates) ==
    IF sw.raised # "none" \/ sg.raised # "none"
    THEN [values |-> simulated_per_share_values,
          ret |-> [called EXCEPT !.raised = "ValueError"]]
    ELSE mc_loop(called, clamp(sw.samples), clamp(sg.samples), rates)

monte_carlo_outcome(wacc_mean, wacc_stdev, g_mean, g_stdev, initial_growth, step_down_growth, draws, zw, zg) ==
    mc_sampled(mc_called(wacc_mean, wacc_stdev, g_mean, g_stdev, initial_growth,
                         step_down_growth, draws),
               norm_rvs(wacc_mean, wacc_stdev, draws, zw),
               norm_rvs(g_mean, g_stdev, draws, zg),
               growth_rates(initial_growth, step_down_growth))

\* the values appended to the stored array instead of replacing it
mc_assign_accumulating(out, draws) ==
    /\ simulations' = draws
    /\ simulated_per_share_values' = simulated_per_share_values \o out.values
    /\ results_mc' = out.ret
    /\ UNCHANGED <<profile, det_fields, results_det, results_det_prev>>

mc_assign(out, draws) ==
    /\ simulations' = draws
    /\ simulated_per_share_values' = out.values
    /\ results_mc' = out.ret
    /\ UNCHANGED <<profile, det_fields, results_det, results_det_prev>>

run_monte_carlo_sensitivity(wacc_mean, wacc_stdev, g_mean, g_stdev, initial_growth, step_down_growth, draws, zw, zg) ==
    mc_assign(monte_carlo_outcome(wacc_mean, wacc_stdev, g_mean, g_stdev,
                                  initial_growth, step_down_growth, draws, zw, zg),
              draws)

(***************************************************************************)
(* The entry points (src/main.py, src/dcf_app.py): a model is constructed, *)
(* valued once deterministically, and then simulated with the same rates   *)
(* and stage growths; or it is simulated straight away.                    *)
(***************************************************************************)
WaccSamples == {Rat(-1, 1), Rat(1, 4), Rat(1, 1)}
GrowthSamples == {Rat(-1, 2), Rat(1, 4)}

ValueOnce ==
    /\ pc = "constructed"
    /\ \E wacc \in Waccs, g \in LongTermGrowths, stage \in StageGrowths :
           run_deterministic_valuation(wacc, g, stage[1], stage[2])
    /\ pc' = "det_done"

Simulate(wacc_mean, g_mean, initial_growth, step_down_growth) ==
    \E wacc_stdev \in Stdevs, g_stdev \in Stdevs, draws \in 0..MaxDraws :
        \E zw \in [1..draws -> WaccSamples], zg \in [1..draws -> GrowthSamples] :
            \* samples that norm_rvs does not read are not drawn twice
            /\ RGt(wacc_stdev, Zero) \/ \A i \in 1..draws : zw[i] = Rat(1, 4)
            /\ RGt(g_stdev, Zero) \/ \A i \in 1..draws : zg[i] = Rat(1, 4)
            /\ run_monte_carlo_sensitivity(wacc_mean, wacc_stdev, g_mean, g_stdev,
                                           initial_growth, step_down_growth,
                                           draws, zw, zg)

SimulateAfterValuation ==
    /\ pc = "det_done"
    \* an exception of the valuation ends the entry point
    /\ results_det.raised = "none"
    /\ Simulate(results_det.WACC, results_det.LongTermGrowth,
                results_det.initial_growth, results_det.step_down_growth)
    /\ pc' = "mc_done"

SimulateOnly ==
    /\ pc = "constructed"
    /\ \E wacc_mean \in Waccs, g_mean \in LongTermGrowths, stage \in StageGrowths :
           Simulate(wacc_mean, g_mean, stage[1], stage[2])
    /\ pc' = "mc_done"

Next == ValueOnce \/ SimulateAfterValuation \/ SimulateOnly

Spec == Init /\ [][Next]_vars

(***************************************************************************)
(* Any sequence of the two public calls on one DCFModel object, with the   *)
(* rates a caller may pass.                                                *)
(***************************************************************************)
CallWacc == Rat(1, 2)
CallWaccMean == Rat(1, 1)
CallGrowth == Rat(1, 4)
CallStage == <<Rat(1, 1), Rat(1, 2)>>
CallSamples == {Rat(1, 4), Rat(1, 2), Rat(1, 1)}

CallDeterministic ==
    /\ run_deterministic_valuation(CallWacc, CallGrowth, CallStage[1], CallStage[2])
    /\ pc' = "det_done"

CallMonteCarlo ==
    \E wacc_stdev \in Stdevs, draws \in 0..MaxDraws :
        \E zw \in [1..draws -> CallSamples] :
            \* samples that norm_rvs does not read are not drawn twice
            /\ RGt(wacc_stdev, Zero) \/ \A i \in 1..draws : zw[i] = Rat(1, 4)
            /\ run_monte_carlo_sensitivity(CallWaccMean, wacc_stdev, CallGrowth, Zero,
                                           CallStage[1], CallStage[2], draws, zw,
                                           [i \in 1..draws |-> CallGrowth])
            /\ pc' = "mc_done"

NextCalls == CallDeterministic \/ CallMonteCarlo

SpecCalls == Init /\ [][NextCalls]_vars

(***************************************************************************)
(* Properties.                                                             *)
(***************************************************************************)
DetCalled == results_det.op = "det"
DetReturned == DetCalled /\ results_det.raised = "none"
MCCalled == results_mc.op = "mc"
MCReturned == MCCalled /\ results_mc.raised = "none"

\* a profile in the ranges the entry points' inputs allow (src/dcf_app.py):
\* non-negative cash flow and debt, positive shares, at least 3 explicit years
DocumentedProfile ==
    /\ RLe(Zero, initial_fcf)
    /\ RLe(Zero, net_debt)
    /\ RGt(shares_outstanding, Zero)
    /\ explicit_years >= 3

\* the draw indices whose clamped rates pass wacc_i > g_i
PassingDraws ==
    {i \in 1..Len(results_mc.simulated_waccs) :
        RGt(results_mc.simulated_waccs[i], results_mc.simulated_gs[i])}

C2_TerminalValueSentinel ==
    (DetCalled /\ results_det.stage # "project") =>
        /\ RLe(results_det.WACC, results_det.LongTermGrowth) =>
               /\ results_det.stage # "terminal"
               /\ results_det.PVTerminalValue = Zero
               /\ ~results_det.gordon
        /\ results_det.gordon =>
               RGt(RSub(results_det.WACC, results_det.LongTermGrowth), Zero)

C2_Witness ==
    /\ DetReturned
    /\ results_det.WACC = results_det.LongTermGrowth
    /\ RGt(initial_fcf, Zero)
    /\ explicit_years >= 1
    /\ results_det.PVTerminalValue = Zero
    /\ terminal_value = Zero

\* C3: a deterministic valuation with wacc <= long_term_growth_rate is
\* signalled to the caller: the call does not return a normal result.
C3_InvalidRatesSignalled ==
    (/\ DetCalled
     /\ DocumentedProfile
     /\ RLe(results_det.WACC, results_det.LongTermGrowth)) =>
        results_det.raised # "none"

\* C4: when no draw survives, the call returns Count 0, Mean 0, Median 0,
\* StDev 0 and the interval (0, 0).
C4_EmptySummaryIsZero ==
    (MCReturned /\ simulated_per_share_values = <<>>) =>
        /\ results_mc.Count = 0
        /\ results_mc.Mean = Zero
        /\ results_mc.Median = Zero
        /\ results_mc.StDevIsZero
        /\ results_mc.CI = <<Zero, Zero>>

C4_Witness ==
    /\ MCReturned
    /\ RGt(shares_outstanding, Zero)
    /\ results_mc.draws = 2
    /\ PassingDraws = {}
    /\ results_mc.Count = 0
    /\ results_mc.CI = <<Zero, Zero>>

\* C5: every rate the simulation loop compares or passes to the kernel is at
\* least 0.01.
C5_RatesClamped ==
    MCReturned =>
        \A i \in 1..results_mc.draws :
            /\ RLe(RateFloor, results_mc.simulated_waccs[i])
            /\ RLe(RateFloor, results_mc.simulated_gs[i])

C5_Witness ==
    /\ MCReturned
    /\ results_mc.draws = 2
    /\ results_mc.wacc_stdev = Zero
    /\ RLt(results_mc.wacc_mean, RateFloor)
    /\ results_mc.simulated_waccs[1] = RateFloor
    /\ RGt(results_mc.g_stdev, Zero)
    /\ results_mc.simulated_gs[2] = RateFloor

\* a simulation with both standard deviations 0, run after a deterministic
\* valuation of the same model with the same rates and stage growths
PointMassAfterValuation ==
    /\ DetReturned
    /\ MCReturned
    /\ results_mc.wacc_stdev = Zero
    /\ results_mc.g_stdev = Zero
    /\ results_mc.draws >= 1
    /\ results_mc.wacc_mean = results_det.WACC
    /\ results_mc.g_mean = results_det.LongTermGrowth
    /\ results_mc.initial_growth = results_det.initial_growth
    /\ results_mc.step_down_growth = results_det.step_down_growth

\* C6 (as claimed): with both standard deviations 0 the Monte Carlo Mean equals
\* the deterministic Fair Value Per Share, for every wacc_mean and g_mean
\* (stated here for the pairs wacc_mean > g_mean alone, where the deterministic
\* valuation has a terminal value).
C6_PointMassMeanIsDeterministic ==
    (/\ PointMassAfterValuation
     /\ DocumentedProfile
     /\ RGt(results_mc.wacc_mean, results_mc.g_mean)) =>
        results_mc.Mean = results_det.FairValuePerShare

\* C6 (amended): with both standard deviations 0, at least one draw, positive
\* shares_outstanding and wacc_mean > g_mean >= 0.01, the Monte Carlo Mean
\* equals the deterministic Fair Value Per Share.
C6_PointMassMeanIsDeterministicInDomain ==
    (/\ PointMassAfterValuation
     /\ RGt(shares_outstanding, Zero)
     /\ RLe(RateFloor, results_mc.g_mean)
     /\ RGt(results_mc.wacc_mean, results_mc.g_mean)) =>
        /\ results_mc.Count = results_mc.draws
        /\ results_mc.Mean = results_det.FairValuePerShare

C6_Witness ==
    /\ PointMassAfterValuation
    /\ RGt(shares_outstanding, Zero)
    /\ RGt(initial_fcf, Zero)
    /\ explicit_years = 3
    /\ results_mc.draws = 2
    /\ results_mc.Count = 2
    /\ results_mc.Mean = results_det.FairValuePerShare
    /\ results_mc.Mean # Zero

\* C7: Count <= draws, and whenever Count > 0 the 2.5th percentile is at most
\* the median, which is at most the 97.5th percentile.
C7_CountAndIntervalOrder ==
    MCReturned =>
        /\ results_mc.Count <= results_mc.draws
        /\ results_mc.Count > 0 =>
               /\ RLe(results_mc.CI[1], results_mc.Median)
               /\ RLe(results_mc.Median, results_mc.CI[2])

C7_Witness ==
    /\ MCReturned
    /\ results_mc.Count = 2
    /\ RLt(results_mc.CI[1], results_mc.Median)
    /\ RLt(results_mc.Median, results_mc.CI[2])
    /\ RLt(simulated_per_share_values[2], simulated_per_share_values[1])

\* C8 (as claimed): run_monte_carlo_sensitivity never raises, negative
\* standard deviations included.
C8_SimulationNeverRaises ==
    MCCalled => results_mc.raised = "none"

\* C8 (amended): the call raises (ValueError, from the sampler) exactly when a
\* standard deviation is negative; with non-negative standard deviations it
\* returns a summary, and a standard deviation of 0 makes every draw of that
\* rate the mean clamped to 0.01.
C8_SimulationRaisesOnlyOnNegativeStdev ==
    MCCalled =>
        /\ results_mc.raised = "none" <=>
               (RLe(Zero, results_mc.wacc_stdev) /\ RLe(Zero, results_mc.g_stdev))
        /\ (MCReturned /\ results_mc.wacc_stdev = Zero) =>
               \A i \in 1..results_mc.draws :
                   results_mc.simulated_waccs[i] = RMax(results_mc.wacc_mean, RateFloor)
        /\ (MCReturned /\ results_mc.g_stdev = Zero) =>
               \A i \in 1..results_mc.draws :
                   results_mc.simulated_gs[i] = RMax(results_mc.g_mean, RateFloor)

C8_Witness ==
    /\ MCReturned
    /\ results_mc.wacc_stdev = Zero
    /\ results_mc.g_stdev = Zero
    /\ results_mc.draws = 2
    /\ RLt(results_mc.g_mean, Zero)
    /\ results_mc.Count = 2

C10_MonotoneInDiscountRate ==
    (/\ results_det_prev.op = "det"
     /\ results_det_prev.raised = "none"
     /\ DetReturned
     /\ DocumentedProfile
     /\ results_det_prev.LongTermGrowth = results_det.LongTermGrowth
     /\ results_det_prev.initial_growth = results_det.initial_growth
     /\ results_det_prev.step_down_growth = results_det.step_down_growth
     /\ RLt(results_det_prev.WACC, results_det.WACC)) =>
        RLe(results_det.FairValuePerShare, results_det_prev.FairValuePerShare)

\* two successive deterministic valuations of one model that returned and
\* differ at most in the rate the claim varies
SameStageGrowths ==
    /\ results_det_prev.op = "det"
    /\ results_det_prev.raised = "none"
    /\ DetReturned
    /\ results_det_prev.initial_growth = results_det.initial_growth
    /\ results_det_prev.step_down_growth = results_det.step_down_growth

\* C11: with the profile (non-negative cash flow, positive shares), the stage
\* growths and the discount rate held fixed, and both terminal growth rates
\* below the discount rate, a higher terminal growth rate never gives a lower
\* Fair Value Per Share.
C11_MonotoneInTerminalGrowth ==
    (/\ SameStageGrowths
     /\ RLe(Zero, initial_fcf)
     /\ RGt(shares_outstanding, Zero)
     /\ results_det_prev.WACC = results_det.WACC
     /\ RLt(results_det_prev.LongTermGrowth, results_det.LongTermGrowth)
     /\ RLt(results_det.LongTermGrowth, results_det.WACC)) =>
        RLe(results_det_prev.FairValuePerShare, results_det.FairValuePerShare)

C11_Witness ==
    /\ SameStageGrowths
    /\ RGt(initial_fcf, Zero)
    /\ RGt(shares_outstanding, Zero)
    /\ explicit_years = 3
    /\ results_det_prev.WACC = results_det.WACC
    /\ RLt(results_det_prev.LongTermGrowth, results_det.LongTermGrowth)
    /\ RLt(results_det.LongTermGrowth, results_det.WACC)
    /\ RLt(results_det_prev.FairValuePerShare, results_det.FairValuePerShare)

\* C12: a valuation whose growth schedule has a length other than
\* explicit_years, as the schedule built for explicit_years below 2 has,
\* raises instead of returning a value.
C12_ScheduleLengthChecked ==
    (/\ DetCalled
     /\ Len(results_det.growth_rates) # explicit_years) =>
        results_det.raised # "none"

\* the cash flow of year t: initial_fcf compounded by the first t rates
RECURSIVE CompoundedFCF(_, _)
CompoundedFCF(t, rates) ==
    IF t = 0 THEN initial_fcf
    ELSE RMul(CompoundedFCF(t - 1, rates), RAdd(One, rates[t]))

\* the sum over years 1..t of the year's cash flow over (1 + discount_rate)^year
RECURSIVE DiscountedSum(_, _, _)
DiscountedSum(t, discount_rate, rates) ==
    IF t = 0 THEN Zero
    ELSE RAdd(DiscountedSum(t - 1, discount_rate, rates),
              RDiv(CompoundedFCF(t, rates), RPow(RAdd(One, discount_rate), t)))

\* the discounted Gordon Growth value of the cash flows after explicit_years
DiscountedPerpetuity(discount_rate, g, rates) ==
    RDiv(RDiv(RMul(CompoundedFCF(explicit_years, rates), RAdd(One, g)),
              RSub(discount_rate, g)),
         RPow(RAdd(One, discount_rate), explicit_years))

\* the per-share value the formulas of the valuation give for one rate pair
FormulaValue(discount_rate, g, rates) ==
    RDiv(RSub(RAdd(DiscountedSum(explicit_years, discount_rate, rates),
                   DiscountedPerpetuity(discount_rate, g, rates)),
              net_debt),
         shares_outstanding)

\* the formula values of the passing draws from index i on, in draw order
RECURSIVE FormulaValuesFrom(_, _)
FormulaValuesFrom(i, rates) ==
    IF i > Len(results_mc.simulated_waccs) THEN <<>>
    ELSE (IF i \in PassingDraws
          THEN <<FormulaValue(results_mc.simulated_waccs[i],
                              results_mc.simulated_gs[i], rates)>>
          ELSE <<>>) \o FormulaValuesFrom(i + 1, rates)

\* a two-stage schedule of explicit_years entries read off the stage growths
ScheduleOf(initial_growth, step_down_growth) ==
    [t \in 1..explicit_years |->
        IF t <= 2 THEN initial_growth ELSE step_down_growth]

\* C13: a returned deterministic valuation satisfies enterprise value = PV of
\* explicit FCFs + PV of terminal value, equity value = enterprise value -
\* net debt, value per share = equity value / shares outstanding, with the PV
\* of explicit FCFs the sum over years 1..T of the compounded cash flow over
\* (1 + discount rate)^t; and the stored simulation values are, for the
\* passing draws in order, the same formulas at the draw's rate pair.
C13_ValuationIdentity ==
    /\ DetReturned =>
        /\ results_det.PVExplicitFCFs =
               DiscountedSum(explicit_years, results_det.WACC,
                             ScheduleOf(results_det.initial_growth,
                                        results_det.step_down_growth))
        /\ results_det.EnterpriseValue =
               RAdd(results_det.PVExplicitFCFs, results_det.PVTerminalValue)
        /\ results_det.EquityValue = RSub(results_det.EnterpriseValue, net_debt)
        /\ results_det.FairValuePerShare =
               RDiv(results_det.EquityValue, shares_outstanding)
    /\ (MCReturned /\ shares_guard) =>
        simulated_per_share_values =
            FormulaValuesFrom(1, ScheduleOf(results_mc.initial_growth,
                                            results_mc.step_down_growth))

C13_Witness ==
    /\ DetReturned
    /\ results_det.gordon
    /\ MCReturned
    /\ explicit_years = 3
    /\ RGt(initial_fcf, Zero)
    /\ results_det.initial_growth # results_det.step_down_growth
    /\ Len(simulated_per_share_values) = 2
    /\ simulated_per_share_values[1] # simulated_per_share_values[2]

\* rates has explicit_years entries, the first two the Stage-1 rate and the
\* others the Stage-2 rate
IsTwoStage(rates, initial_growth, step_down_growth) ==
    /\ Len(rates) = explicit_years
    /\ \A t \in 1..Len(rates) :
           rates[t] = (IF t <= 2 THEN initial_growth ELSE step_down_growth)

\* C14: for explicit_years >= 3 the schedule either entry point builds has
\* exactly explicit_years entries, the first two the Stage-1 rate and the
\* remaining explicit_years - 2 the Stage-2 rate; the two entry points build
\* the same schedule from the same stage growths; and the returned projected
\* FCF series has explicit_years + 1 entries, the first being initial_fcf.
C14_TwoStageSchedule ==
    explicit_years >= 3 =>
        /\ DetCalled =>
               IsTwoStage(results_det.growth_rates, results_det.initial_growth,
                          results_det.step_down_growth)
        /\ MCReturned =>
               IsTwoStage(results_mc.growth_rates, results_mc.initial_growth,
                          results_mc.step_down_growth)
        /\ (/\ DetCalled
            /\ MCReturned
            /\ results_det.initial_growth = results_mc.initial_growth
            /\ results_det.step_down_growth = results_mc.step_down_growth) =>
               results_det.growth_rates = results_mc.growth_rates
        /\ DetReturned =>
               /\ Len(results_det.ProjectedFCFs) = explicit_years + 1
               /\ results_det.ProjectedFCFs[1] = initial_fcf

C14_Witness ==
    /\ explicit_years >= 3
    /\ DetReturned
    /\ MCReturned
    /\ results_det.initial_growth # results_det.step_down_growth
    /\ results_mc.growth_rates = results_det.growth_rates
    /\ Len(results_mc.growth_rates) = explicit_years
    /\ RGt(initial_fcf, Zero)
    /\ Len(results_det.ProjectedFCFs) = explicit_years + 1

\* the values the most recent returned simulation run stores
SurvivingValues ==
    IF shares_guard
    THEN FormulaValuesFrom(1, ScheduleOf(results_mc.initial_growth,
                                         results_mc.step_down_growth))
    ELSE <<>>

C15_StoredValues ==
    /\ ~MCCalled =>
        /\ simulated_per_share_values = <<>>
        /\ simulations = 10000
    /\ MCReturned =>
        /\ simulated_per_share_values = SurvivingValues
        /\ Len(simulated_per_share_values) = results_mc.Count
        /\ simulations = results_mc.draws

C15_Frame ==
    /\ UNCHANGED profile
    /\ pc' = "det_done" => UNCHANGED <<simulated_per_share_values, simulations>>

\* C15: after any sequence of deterministic and Monte Carlo calls on one
\* model, simulated_per_share_values is empty before the first Monte Carlo
\* run and otherwise holds exactly the surviving values of the most recent
\* returned run in draw order, as many as that run's Count; a deterministic
\* call leaves simulated_per_share_values and simulations unchanged; and no
\* call changes initial_fcf, net_debt, shares_outstanding or explicit_years.
C15_MostRecentRunStored == []C15_StoredValues /\ [][C15_Frame]_vars

C15_Witness ==
    /\ pc = "det_done"
    /\ DetReturned
    /\ MCReturned
    /\ results_mc.Count = 2
    /\ simulations = 2
    /\ Len(simulated_per_share_values) = 2
    /\ simulated_per_share_values[1] # simulated_per_share_values[2]

====
